---- MODULE Spec2Model ----
(***************************************************************************)
(* slide2pdf (src/main.js): the slide-traversal decision engine.           *)
(*                                                                         *)
(*  - containsClass : does a selector match the parsed page                *)
(*  - isEnd         : is the current slide the last one                    *)
(*  - nextslide     : which key to press to reach the next slide           *)
(*  - the capture loop of the main async function                          *)
(*                                                                         *)
(* Strings that the program takes apart (selectors) are sequences of       *)
(* tokens: a name, "." or " ".  The page is a sequence of elements in      *)
(* document order, each with a tag name, a set of classes and the index of *)
(* its parent element (0: child of the root).                              *)
(***************************************************************************)
EXTENDS Integers, Sequences, FiniteSets, TLC

VARIABLES
    cfg,          \* config.get(): [endCase, navigate], fixed for the run
    pageContent,  \* the last markup snapshot fetched (page.content())
    end,          \* the end flag (let end = false, main.js:457)
    i,            \* the slide index (let i = 1, main.js:476)
    pc,           \* position of the main async function
    captured,     \* indices of the screenshots taken so far, in order
    next,         \* the last key pressed (global `next`, main.js:511)
    ret,          \* the last evaluation of isEnd / nextslide: inputs and outcome
    tmp,          \* the temporary directory tempDir: present, removing, removed
    browser,      \* the browser session: none, open, closed
    status,       \* "running", or the exit status of the process: "0", "-1"
    out,          \* the messages printed so far
    slide,        \* the slide the page shows: 1 + the keys pressed so far
    shots,        \* the slide shown at each screenshot taken, in order
    opt,          \* the command line, the configuration file and the options resolved
    log,          \* the calls and external operations of the run so far, in order
    pending       \* the commands sent to the page and not yet answered

vars == <<cfg, pageContent, end, i, pc, captured, next, ret, tmp, browser, status, out,
          slide, shots, opt, log, pending>>

----------------------------------------------------------------------------
(* Bounds of the model *)

\* elements of a markup snapshot
MaxNodes == 2
\* selectors of a custom endCase.queries list
MaxQueries == 2
\* entries of a navigate table
MaxEntries == 2
\* slides of the deck of a run
MaxSlides == 3

----------------------------------------------------------------------------
(* Selectors, as the strings of main.js and of the README's example *)

SelFuture == <<".", "future">>
SelSlideFuture == <<".", "slide", ".", "future">>
SelSlideFarFuture == <<".", "slide", ".", "far-future">>
SelNavigateRightEnabled == <<".", "navigate-right", ".", "enabled">>
SelNavigateDownEnabled == <<".", "navigate-down", ".", "enabled">>
\* the selector of nextslide's default rule: two names separated by a space
SelNavigateDownDefault == <<"navigate-down", " ", "enabled">>

----------------------------------------------------------------------------
(* containsClass: HTMLParser.parse(pageContent).querySelector(className)   *)

\* String.split(sep), on token sequences
RECURSIVE Split(_, _)
Split(s, sep) ==
    IF s = <<>> THEN << <<>> >>
    ELSE LET rest == Split(Tail(s), sep)
         IN  IF Head(s) = sep
             THEN << <<>> >> \o rest
             ELSE << <<Head(s)>> \o Head(rest) >> \o Tail(rest)

\* one space-free part of a selector: "tag.class1.class2", the tag optional
Compound(part) ==
    LET pieces == Split(part, ".")
    IN  [tag |-> IF Head(pieces) = <<>> THEN "" ELSE Head(pieces)[1],
         cls |-> {pieces[k][1] : k \in {j \in 2..Len(pieces) : pieces[j] # <<>>}}]

\* a selector is a chain of compound parts separated by spaces (descendants)
ParseSelector(className) ==
    LET parts == Split(className, " ")
    IN  [k \in 1..Len(parts) |-> Compound(parts[k])]

\* an element matches a compound part: same tag if one is given, every class
Matches(node, c) ==
    /\ c.tag = "" \/ node.tag = c.tag
    /\ c.cls \subseteq node.cls

RECURSIVE Ancestors(_, _)
Ancestors(markup, idx) ==
    IF markup[idx].parent = 0 THEN {}
    ELSE {markup[idx].parent} \cup Ancestors(markup, markup[idx].parent)

\* element idx matches part k of the chain, below elements matching parts 1..k-1
RECURSIVE MatchChain(_, _, _, _)
MatchChain(markup, idx, chain, k) ==
    /\ Matches(markup[idx], chain[k])
    /\ \/ k = 1
       \/ \E a \in Ancestors(markup, idx) : MatchChain(markup, a, chain, k - 1)

containsClass(markup, className) ==
    LET chain == ParseSelector(className)
    IN  \E idx \in 1..Len(markup) : MatchChain(markup, idx, chain, Len(chain))

----------------------------------------------------------------------------
(* The markup snapshots the rendering surface may return *)

NodeKinds ==
    { [tag |-> "section", cls |-> {"slide", "future"}],
      [tag |-> "section", cls |-> {"slide", "far-future"}],
      [tag |-> "section", cls |-> {"future"}],
      [tag |-> "aside",   cls |-> {"navigate-right", "enabled"}],
      [tag |-> "aside",   cls |-> {"navigate-down", "enabled"}],
      [tag |-> "navigate-down", cls |-> {}],
      [tag |-> "enabled", cls |-> {}] }

ParentMaps(n) == {p \in [1..n -> 0..n] : \A j \in 1..n : p[j] < j}

MarkupsOfLen(n) ==
    { [j \in 1..n |-> [tag |-> ks[j].tag, cls |-> ks[j].cls, parent |-> ps[j]]] :
        ks \in [1..n -> NodeKinds], ps \in ParentMaps(n) }

Markups == UNION {MarkupsOfLen(n) : n \in 0..MaxNodes}

----------------------------------------------------------------------------
(* The configuration: config.get().endCase and config.get().navigate       *)

\* endCase missing from the configuration (config.get().endCase undefined)
NoEndCase ==
    [defined |-> FALSE, operator |-> "", reverse |-> FALSE,
     hasQueries |-> FALSE, queries |-> <<>>]

\* operator strings a configuration may hold: the two of the README and another
Operators == {"and", "or", "xor"}

QuerySelectors == {SelFuture, SelNavigateDownEnabled}

QueryLists == UNION {[1..n -> QuerySelectors] : n \in 0..MaxQueries}

\* endCase objects: with a queries array (possibly empty) or without the key
EndCases ==
    {NoEndCase}
    \cup { [defined |-> TRUE, operator |-> o, reverse |-> r,
            hasQueries |-> TRUE, queries |-> q] :
             o \in Operators, r \in BOOLEAN, q \in QueryLists }
    \cup { [defined |-> TRUE, operator |-> o, reverse |-> r,
            hasQueries |-> FALSE, queries |-> <<>>] :
             o \in Operators, r \in BOOLEAN }

\* navigate missing from the configuration
NoNavigate == [defined |-> FALSE, list |-> <<>>]

\* entries of a navigate table: [selector, key name], or a selector alone
NavEntries ==
    { <<SelNavigateDownEnabled, "ArrowDown">>,
      <<SelFuture, "PageDown">>,
      <<SelFuture, "ArrowDown">>,
      <<SelFuture>> }

NavLists == UNION {[1..n -> NavEntries] : n \in 0..MaxEntries}

Navigates == {NoNavigate} \cup { [defined |-> TRUE, list |-> l] : l \in NavLists }

\* the value of a missing array element or object key
Undefined == "undefined"

----------------------------------------------------------------------------
(* isEnd and its helpers *)

\* what an evaluation of isEnd or nextslide did: it returned val (isEnd) or
\* action (nextslide), or threw; the selectors it handed to containsClass, in
\* order; the diagnostics it printed
Outcome(fn, e, kind, val, action, queried, diag) ==
    [fn |-> fn, end |-> e, kind |-> kind, val |-> val, action |-> action,
     queried |-> queried, diag |-> diag]

NoCall == Outcome("none", FALSE, "none", FALSE, "", <<>>, {})

\* plausible slips of getOperator
getOperator_AlwaysOr(operator) == "||"

getOperator_AlwaysAnd(operator) == "&&"

getOperator_UnknownIsAnd(operator) == IF operator = "or" THEN "||" ELSE "&&"

getOperator(operator) == IF operator = "and" THEN "&&" ELSE "||"

\* eval(a + operatorObject + b) on two booleans
eval(a, operatorObject, b) == IF operatorObject = "&&" THEN a /\ b ELSE a \/ b

\* one pass of the loop body over a query's result (main.js:362-366)
foldRequest_IgnoresReverse(resTmp, operatorObject, request, reverse) ==
    eval(resTmp, operatorObject, request)

foldRequest(resTmp, operatorObject, request, reverse) ==
    IF reverse
    THEN eval(resTmp, operatorObject, ~request)
    ELSE eval(resTmp, operatorObject, request)

\* the for loop over endCaseObj.queries, from index j on
RECURSIVE foldQueries(_, _, _, _, _)
foldQueries(markup, endCaseObj, operatorObject, j, resTmp) ==
    IF j > Len(endCaseObj.queries) THEN resTmp
    ELSE foldQueries(markup, endCaseObj, operatorObject, j + 1,
             foldRequest(resTmp, operatorObject,
                         containsClass(markup, endCaseObj.queries[j]),
                         endCaseObj.reverse))

endLandslide(markup, e) ==
    IF ~e
    THEN ~(containsClass(markup, SelSlideFarFuture) \/ containsClass(markup, SelSlideFuture))
    ELSE e

\* the selectors endLandslide evaluates (|| stops at the first match)
endLandslideQueried(markup, e) ==
    IF e THEN <<>>
    ELSE IF containsClass(markup, SelSlideFarFuture) THEN <<SelSlideFarFuture>>
    ELSE <<SelSlideFarFuture, SelSlideFuture>>

\* a plausible slip: the down arrow of a vertical stack is not looked at
endReveal_NoNavigateDown(markup, e) ==
    IF ~e
    THEN /\ ~containsClass(markup, SelFuture)
         /\ ~containsClass(markup, SelNavigateRightEnabled)
    ELSE e

endReveal(markup, e) ==
    IF ~e
    THEN /\ ~containsClass(markup, SelFuture)
         /\ ~containsClass(markup, SelNavigateRightEnabled)
         /\ ~containsClass(markup, SelNavigateDownEnabled)
    ELSE e

\* the selectors endReveal evaluates (&& stops at the first marker present)
endRevealQueried(markup, e) ==
    IF e THEN <<>>
    ELSE IF containsClass(markup, SelFuture) THEN <<SelFuture>>
    ELSE IF containsClass(markup, SelNavigateRightEnabled)
         THEN <<SelFuture, SelNavigateRightEnabled>>
    ELSE <<SelFuture, SelNavigateRightEnabled, SelNavigateDownEnabled>>

\* the branch of a configured endCase (main.js:356-369); reading .length of a
\* missing queries array throws a TypeError before any selector is evaluated
isEndCustom(markup, endCaseObj) ==
    LET operatorObject == getOperator(endCaseObj.operator)
        resTmp == ~eval(TRUE, operatorObject, FALSE)
    IN  IF ~endCaseObj.hasQueries
        THEN Outcome("isEnd", FALSE, "throw", FALSE, "", <<>>, {})
        ELSE Outcome("isEnd", FALSE, "return",
                     foldQueries(markup, endCaseObj, operatorObject, 1, resTmp) \/ FALSE,
                     "", endCaseObj.queries, {})

\* the branch without endCase, or with end already true (main.js:370-376)
isEndDefault(markup, e) ==
    IF ~e
    THEN Outcome("isEnd", e, "return",
                 endReveal(markup, e) /\ endLandslide(markup, e), "",
                 endRevealQueried(markup, e)
                   \o (IF endReveal(markup, e) THEN endLandslideQueried(markup, e) ELSE <<>>),
                 {})
    ELSE Outcome("isEnd", e, "return", e, "", <<>>, {})

\* a plausible slip: the end flag is not consulted before evaluating
isEnd_Reevaluates(markup, e, endCaseObj) ==
    IF endCaseObj.defined
    THEN [isEndCustom(markup, endCaseObj) EXCEPT !.end = e]
    ELSE [isEndDefault(markup, FALSE) EXCEPT !.end = e]

isEnd(markup, e, endCaseObj) ==
    IF endCaseObj.defined /\ ~e
    THEN isEndCustom(markup, endCaseObj)
    ELSE isEndDefault(markup, e)

----------------------------------------------------------------------------
(* nextslide and its helpers *)

\* Object.freeze({"SELECTOR": 0, "ACTION": 1}); ACTION is a reserved word here
KeyValEnum == [SELECTOR |-> 0, ACTIONKEY |-> 1]

\* array[index], 0-based; a missing element reads as undefined
At(array, index) == IF index < Len(array) THEN array[index + 1] ELSE Undefined

DiagInvalidNavigate == "Navigate option's format is not valid"

\* the value validNavigate returns: the loop checks every entry but the last
validNavigate(navigationList) ==
    IF navigationList.defined
    THEN LET condition1 == Len(navigationList.list) >= 1
             condition2 == \A k \in 0..(Len(navigationList.list) - 2) :
                               Len(At(navigationList.list, k)) = 2
         IN  condition1 /\ condition2
    ELSE FALSE

\* the diagnostics validNavigate prints (assert(!(condition1 && condition2), ...))
validNavigateDiag(navigationList) ==
    IF navigationList.defined /\ ~validNavigate(navigationList)
    THEN {DiagInvalidNavigate}
    ELSE {}

\* the condition of the while loop of the table scan
scanContinues_AllEntries(actionKey, j, listLength) == j < listLength

scanContinues(actionKey, j, listLength) == actionKey = "" /\ j < listLength

\* the while loop of the table scan from index j on: the key found and the
\* selectors evaluated
RECURSIVE scanTable(_, _, _, _, _)
scanTable(markup, list, j, actionKey, queried) ==
    IF scanContinues(actionKey, j, Len(list))
    THEN LET selector == At(At(list, j), KeyValEnum.SELECTOR)
         IN  scanTable(markup, list, j + 1,
                       IF containsClass(markup, selector)
                       THEN At(At(list, j), KeyValEnum.ACTIONKEY)
                       ELSE actionKey,
                       Append(queried, selector))
    ELSE [actionKey |-> actionKey, queried |-> queried]

\* the key returned when no valid table is configured (main.js:252-257)
defaultKey_AlwaysRight(markup) == "ArrowRight"

defaultKey(markup) ==
    IF containsClass(markup, SelNavigateDownDefault) THEN "ArrowDown" ELSE "ArrowRight"

\* the key returned when the scan of the table found none (main.js:270-272)
fallbackKey_Down(actionKey) == IF actionKey = "" THEN "ArrowDown" ELSE actionKey

fallbackKey(actionKey) == IF actionKey = "" THEN "ArrowRight" ELSE actionKey

nextslide(markup, navigationList) ==
    LET isDefault == validNavigate(navigationList)
        diag == validNavigateDiag(navigationList)
    IN  IF ~isDefault
        THEN Outcome("nextslide", FALSE, "return", FALSE, defaultKey(markup),
                     <<SelNavigateDownDefault>>, diag)
        ELSE LET found == scanTable(markup, navigationList.list, 0, "", <<>>)
             IN  Outcome("nextslide", FALSE, "return", FALSE,
                         fallbackKey(found.actionKey), found.queried, diag)

----------------------------------------------------------------------------
(* Values of the command line and of the configuration file *)

\* a JavaScript value: undefined, a number n, NaN, or a string s
Value(t, n, str) == [t |-> t, n |-> n, s |-> str]

Undef == Value("undefined", 0, "")

Num(n) == Value("number", n, "")

NaN == Value("NaN", 0, "")

Str(str) == Value("string", 0, str)

OptionNames == {"url", "o", "w", "h", "delay", "q"}

\* no option given anywhere
NoValues == [k \in OptionNames |-> Undef]

\* before the options are read
NoOptions ==
    [hasFile |-> FALSE, argv |-> NoValues, file |-> NoValues,
     argvOverwrite |-> FALSE, fileOverwrite |-> FALSE, exists |-> FALSE,
     used |-> NoValues, overwrite |-> FALSE]

defaultQuality == 90

defaultHeight == 768

defaultWidth == 1025

defaultDelay == 500

MsgInvalidQuality == "Invalid typed photo quality, using default"
MsgInvalidHeight == "Typed height value: Invalid or not found, using default"
MsgInvalidWidth == "Typed width value: Invalid or not found, using default"
MsgInvalidDelay == "Typed animation delay value: Invalid or not found, using default"
MsgNoUrl == "No URL found"
MsgNoPath == "No path/name specified for the rendered file"
MsgNoConfig == "No config file found, using default configuration"
MsgExists == "already exists"

\* typeof: NaN is a number
TypeOf(v) == IF v.t = "NaN" THEN "number" ELSE v.t

\* the strings of the model that convert to a number: "" to 0, "800" to 800
NumericStrings == [str \in {"", "800"} |-> IF str = "" THEN 0 ELSE 800]

\* the conversion to a number made by ==, != , <= and >= on a number operand
ToNumber(v) ==
    CASE v.t = "number" -> v
      [] v.t = "string" -> IF v.s \in DOMAIN NumericStrings
                           THEN Num(NumericStrings[v.s])
                           ELSE NaN
      [] OTHER -> NaN

\* a == b
LooseEqual(a, b) ==
    CASE a.t = "undefined" \/ b.t = "undefined" -> a.t = b.t
      [] a.t = "string" /\ b.t = "string" -> a.s = b.s
      [] OTHER -> /\ ToNumber(a).t = "number"
                  /\ ToNumber(b).t = "number"
                  /\ ToNumber(a).n = ToNumber(b).n

\* v >= n
GreaterOrEqual(v, n) == ToNumber(v).t = "number" /\ ToNumber(v).n >= n

\* v <= n
LessOrEqual(v, n) == ToNumber(v).t = "number" /\ ToNumber(v).n <= n

\* ("undefined" && "NaN") is "NaN"
isInt(element) ==
    /\ TypeOf(element) = "number"
    /\ ~LooseEqual(element, Str("NaN"))

isQuality(commandLineValue, configFileValue) ==
    LET isQua == /\ LessOrEqual(commandLineValue, 100)
                 /\ GreaterOrEqual(commandLineValue, 0)
                 /\ isInt(commandLineValue)
        isQua2 == /\ LessOrEqual(configFileValue, 100)
                  /\ GreaterOrEqual(configFileValue, 0)
                  /\ isInt(configFileValue)
    IN  IF isQua THEN commandLineValue
        ELSE IF isQua2 THEN configFileValue
        ELSE Num(defaultQuality)

\* the message of isQuality
isQualityDiag(commandLineValue, configFileValue) ==
    IF \/ /\ LessOrEqual(commandLineValue, 100)
          /\ GreaterOrEqual(commandLineValue, 0)
          /\ isInt(commandLineValue)
       \/ /\ LessOrEqual(configFileValue, 100)
          /\ GreaterOrEqual(configFileValue, 0)
          /\ isInt(configFileValue)
    THEN {}
    ELSE {MsgInvalidQuality}

\* a plausible slip: the configuration file's value is tried first
isValidValue_PrefersConfig(commandLineValue, configFileValue, type) ==
    LET isDim == GreaterOrEqual(commandLineValue, 0) /\ isInt(commandLineValue)
        isDim2 == GreaterOrEqual(configFileValue, 0) /\ isInt(configFileValue)
    IN  IF isDim2 THEN configFileValue
        ELSE IF isDim THEN commandLineValue
        ELSE IF type = "h" THEN Num(defaultHeight)
        ELSE IF type = "w" THEN Num(defaultWidth)
        ELSE Num(defaultDelay)

isValidValue(commandLineValue, configFileValue, type) ==
    LET isDim == GreaterOrEqual(commandLineValue, 0) /\ isInt(commandLineValue)
        isDim2 == GreaterOrEqual(configFileValue, 0) /\ isInt(configFileValue)
    IN  IF isDim THEN commandLineValue
        ELSE IF isDim2 THEN configFileValue
        ELSE IF type = "h" THEN Num(defaultHeight)
        ELSE IF type = "w" THEN Num(defaultWidth)
        ELSE Num(defaultDelay)

\* the message of isValidValue
isValidValueDiag(commandLineValue, configFileValue, type) ==
    IF \/ GreaterOrEqual(commandLineValue, 0) /\ isInt(commandLineValue)
       \/ GreaterOrEqual(configFileValue, 0) /\ isInt(configFileValue)
    THEN {}
    ELSE IF type = "h" THEN {MsgInvalidHeight}
    ELSE IF type = "w" THEN {MsgInvalidWidth}
    ELSE {MsgInvalidDelay}

\* configURL is config.get().url, undefined when that throws
validUrl(url, configURL) ==
    IF LooseEqual(url, Undef) /\ ~LooseEqual(configURL, Undef)
    THEN [exit |-> FALSE, val |-> configURL]
    ELSE IF ~LooseEqual(url, Undef)
    THEN [exit |-> FALSE, val |-> url]
    ELSE [exit |-> TRUE, val |-> Undef]

DefaultPath == Str("./out.pdf")

\* configPath is config.get().outputPath, undefined when that throws
verifyPath(typedPath, configPath) ==
    IF ~LooseEqual(typedPath, Undef) THEN typedPath
    ELSE IF ~LooseEqual(configPath, Undef) THEN configPath
    ELSE DefaultPath

\* the message of verifyPath
verifyPathDiag(typedPath, configPath) ==
    IF LooseEqual(typedPath, Undef) /\ LooseEqual(configPath, Undef)
    THEN {MsgNoPath}
    ELSE {}

\* verifyName stops the process when the file exists and is not to be
\* overwritten
verifyNameExits(exists, overwrite) == exists /\ ~overwrite

----------------------------------------------------------------------------
(* isEnd applied once to any endCase, any snapshot and either value of the  *)
(* end flag, the result assigned as the capture loop does                   *)
(* (end = isEnd(pageContent, end), main.js:490 and 508)                     *)

InitEnd ==
    /\ cfg \in {[endCase |-> ec, navigate |-> NoNavigate] : ec \in EndCases}
    /\ pageContent \in Markups
    /\ end \in BOOLEAN
    /\ i = 1
    /\ pc = "fetched"
    /\ captured = <<>>
    /\ next = ""
    /\ ret = NoCall
    /\ tmp = "present"
    /\ browser = "open"
    /\ status = "running"
    /\ out = {}
    /\ slide = 1
    /\ shots = <<>>
    /\ log = <<>>
    /\ pending = {}
    /\ opt = NoOptions

EvalIsEnd ==
    /\ pc = "fetched"
    /\ LET r == isEnd(pageContent, end, cfg.endCase)
       IN  /\ ret' = r
           /\ end' = IF r.kind = "return" THEN r.val ELSE end
    /\ pc' = "evaluated"
    /\ UNCHANGED <<cfg, pageContent, i, captured, next, tmp, browser, status, out, shots, slide, opt, log, pending>>

NextEnd == EvalIsEnd

SpecEnd == InitEnd /\ [][NextEnd]_vars

(* nextslide applied once to any navigate option and any snapshot, the      *)
(* result assigned as the capture loop does (next = nextslide(pageContent)) *)

InitNav ==
    /\ cfg \in {[endCase |-> NoEndCase, navigate |-> n] : n \in Navigates}
    /\ pageContent \in Markups
    /\ end = FALSE
    /\ i = 1
    /\ pc = "fetched"
    /\ captured = <<>>
    /\ next = ""
    /\ ret = NoCall
    /\ tmp = "present"
    /\ browser = "open"
    /\ status = "running"
    /\ out = {}
    /\ slide = 1
    /\ shots = <<>>
    /\ log = <<>>
    /\ pending = {}
    /\ opt = NoOptions

EvalNextSlide ==
    /\ pc = "fetched"
    /\ LET r == nextslide(pageContent, cfg.navigate)
       IN  /\ ret' = r
           /\ next' = r.action
           /\ out' = out \cup r.diag
    /\ pc' = "evaluated"
    /\ UNCHANGED <<cfg, pageContent, end, i, captured, tmp, browser, status, shots, slide, opt, log, pending>>

NextNav == EvalNextSlide

SpecNav == InitNav /\ [][NextNav]_vars

----------------------------------------------------------------------------
(* The run: the main async function (main.js:459-548).  Each action is the  *)
(* code from one await to the next; an external operation either completes  *)
(* or throws.                                                               *)

\* the endCase and navigate of the README's example configuration
ReadmeEndCase ==
    [defined |-> TRUE, operator |-> "and", reverse |-> TRUE,
     hasQueries |-> TRUE, queries |-> <<SelFuture, SelNavigateDownEnabled>>]

ReadmeNavigate ==
    [defined |-> TRUE,
     list |-> << <<SelNavigateDownEnabled, "ArrowDown">>, <<SelFuture, "PageDown">> >>]

\* the configurations of a run: with and without each option, and the
\* malformed options (endCase without queries, navigate entry without action,
\* empty navigate table)
RunConfigs ==
    { [endCase |-> ec, navigate |-> n] :
        ec \in {NoEndCase, ReadmeEndCase,
                [ReadmeEndCase EXCEPT !.hasQueries = FALSE, !.queries = <<>>]},
        n \in {NoNavigate, ReadmeNavigate,
               [defined |-> TRUE, list |-> << <<SelFuture>> >>],
               [defined |-> TRUE, list |-> << >>]} }

\* the snapshots page.content() may return during a run
Snapshots ==
    MarkupsOfLen(0) \cup MarkupsOfLen(1)
    \cup { << [tag |-> "navigate-down", cls |-> {}, parent |-> 0],
              [tag |-> "enabled", cls |-> {}, parent |-> 1] >>,
           << [tag |-> "section", cls |-> {"future"}, parent |-> 0],
              [tag |-> "navigate-down", cls |-> {}, parent |-> 0],
              [tag |-> "enabled", cls |-> {}, parent |-> 2] >> }

MsgUrl == "An error occurred while trying to access to URL"
MsgLoop == "Selected stopping or navigate condition(s) seem(s) to be incorrect"
MsgOuter == "Something went wrong during execution"
MsgRendered == "The rendered file is available here"

Init ==
    /\ cfg \in RunConfigs
    /\ pageContent = <<>>
    /\ end = FALSE
    /\ i = 1
    /\ pc = "launch"
    /\ captured = <<>>
    /\ next = ""
    /\ ret = NoCall
    /\ tmp = "present"
    /\ browser = "none"
    /\ status = "running"
    /\ out = {}
    /\ slide = 1
    /\ shots = <<>>
    /\ log = <<>>
    /\ pending = {}
    /\ opt = NoOptions

\* deleteTmp(tempDir): rimraf starts and returns at once
deleteTmp(dir) == IF dir = "present" THEN "removing" ELSE dir

\* the calls and operations a step adds to the log
Did(events) == log' = log \o events

\* stopAnimation(page): two commands sent to the page, neither awaited
\* (main.js:199-205)
stopAnimation == {"Animation.disable", "Animation.setPlaybackRate"}

\* the calls of one nextslide: validNavigate, its message, the key returned
nextslideCalls(navigationList) ==
    <<"validNavigate">>
    \o (IF validNavigateDiag(navigationList) = {} THEN <<>> ELSE <<DiagInvalidNavigate>>)
    \o <<"nextslide">>

\* the catch of the outer try (main.js:538-547): browser is a const of the try
\* block and is out of scope here, so browser.close() throws a ReferenceError
\* and the inner catch calls process.exit(-1) right after deleteTmp
OuterCatch ==
    /\ out' = out \cup {MsgOuter}
    /\ tmp' = deleteTmp(tmp)
    /\ status' = "-1"
    /\ pc' = "exited"

\* a plausible slip: the catch is inside the while loop, which goes on
LoopCatch_Retries ==
    /\ out' = out \cup {MsgLoop}
    /\ pc' = "loop"

\* a plausible slip: the catch leaves the run without the conversion
LoopCatch_SkipsConvert ==
    /\ out' = out \cup {MsgLoop}
    /\ pc' = "close"

\* the catch of the loop's try (main.js:521-525): the run goes on to convert
LoopCatch ==
    /\ out' = out \cup {MsgLoop}
    /\ pc' = "convert"

\* puppeteer.launch()
Launch ==
    /\ pc = "launch"
    /\ \/ /\ browser' = "open"
          /\ pc' = "newPage"
          /\ Did(<<"launch">>)
          /\ UNCHANGED <<tmp, status, out>>
       \/ /\ OuterCatch
          /\ Did(<<"launch", "catch", "deleteTmp">>)
          /\ UNCHANGED browser
    /\ UNCHANGED <<cfg, pageContent, end, i, captured, next, ret, shots, slide, opt, pending>>

\* browser.newPage() and page.setViewport()
NewPage ==
    /\ pc = "newPage"
    /\ \/ /\ pc' = "goto"
          /\ Did(<<"newPage">>)
          /\ UNCHANGED <<tmp, status, out>>
       \/ /\ OuterCatch
          /\ Did(<<"newPage", "catch", "deleteTmp">>)
    /\ UNCHANGED <<cfg, pageContent, end, i, captured, next, ret, browser, shots, slide, opt, pending>>

\* page.goto(url): its own catch prints, starts deleteTmp and lets the run go on
Goto ==
    /\ pc = "goto"
    /\ \/ /\ Did(<<"goto">>)
          /\ UNCHANGED <<tmp, out>>
       \/ /\ out' = out \cup {MsgUrl}
          /\ tmp' = deleteTmp(tmp)
          /\ Did(<<"goto", "catch", "deleteTmp">>)
    /\ pc' = "content"
    /\ UNCHANGED <<cfg, pageContent, end, i, captured, next, ret, browser, status, shots, slide, opt, pending>>

\* pageContent = await page.content(); end = isEnd(pageContent, end);
\* stopAnimation(page); up to await sleep(3000)  (main.js:489-495)
FirstContent ==
    /\ pc = "content"
    /\ \/ \E markup \in Snapshots :
            LET r == isEnd(markup, end, cfg.endCase)
            IN  /\ pageContent' = markup
                /\ ret' = r
                /\ IF r.kind = "return"
                   THEN /\ end' = r.val
                        /\ pc' = "firstShot"
                        /\ Did(<<"content", IF r.val THEN "isEnd:true" ELSE "isEnd:false",
                                 "stopAnimation", "sleep3000">>)
                        /\ pending' = pending \cup stopAnimation
                        /\ UNCHANGED <<tmp, status, out>>
                   ELSE /\ OuterCatch
                        /\ Did(<<"content", "isEnd:throw", "catch", "deleteTmp">>)
                        /\ UNCHANGED <<end, pending>>
       \/ /\ OuterCatch
          /\ Did(<<"content", "catch", "deleteTmp">>)
          /\ UNCHANGED <<pageContent, end, ret, pending>>
    /\ UNCHANGED <<cfg, i, captured, next, browser, shots, slide, opt>>

\* page.screenshot into tempDir: fails once the directory is gone
screenshotWritable(dir) == dir # "removed"

\* a plausible slip: no screenshot when the first slide is already the end
FirstScreenshot_SkipsWhenEnded ==
    /\ pc = "firstShot"
    /\ \/ /\ screenshotWritable(tmp)
          /\ captured' = IF end THEN captured ELSE Append(captured, i)
          /\ shots' = IF end THEN shots ELSE Append(shots, slide)
          /\ Did(IF end THEN <<>> ELSE <<"screenshot">>)
          /\ pc' = "loop"
          /\ UNCHANGED <<tmp, status, out>>
       \/ /\ OuterCatch
          /\ Did(<<"screenshot", "catch", "deleteTmp">>)
          /\ UNCHANGED <<captured, shots>>
    /\ UNCHANGED <<cfg, pageContent, end, i, next, ret, browser, slide, opt, pending>>

\* the screenshot of slide 1, taken whatever isEnd returned (main.js:496-501)
FirstScreenshot ==
    /\ pc = "firstShot"
    /\ \/ /\ screenshotWritable(tmp)
          /\ captured' = Append(captured, i)
          /\ shots' = Append(shots, slide)
          /\ Did(<<"screenshot">>)
          /\ pc' = "loop"
          /\ UNCHANGED <<tmp, status, out>>
       \/ /\ OuterCatch
          /\ Did(<<"screenshot", "catch", "deleteTmp">>)
          /\ UNCHANGED <<captured, shots>>
    /\ UNCHANGED <<cfg, pageContent, end, i, next, ret, browser, slide, opt, pending>>

\* a plausible slip: the index is not incremented
LoopTest_NoIncrement ==
    /\ pc = "loop"
    /\ IF end
       THEN /\ pc' = "convert"
            /\ UNCHANGED i
       ELSE /\ pc' = "loopContent"
            /\ UNCHANGED i
    /\ UNCHANGED <<cfg, pageContent, end, captured, next, ret, tmp, browser, status, out, shots, slide, opt, log, pending>>

\* a plausible slip: the loop does not test end before its next pass
LoopTest_NoTest ==
    /\ pc = "loop"
    /\ IF end /\ i > MaxSlides
       THEN /\ pc' = "convert"
            /\ UNCHANGED i
       ELSE /\ i' = i + 1
            /\ pc' = "loopContent"
    /\ UNCHANGED <<cfg, pageContent, end, captured, next, ret, tmp, browser, status, out, shots, slide, opt, log, pending>>

\* a plausible slip: the loop has a ceiling of two passes
LoopTest_Ceiling ==
    /\ pc = "loop"
    /\ IF end \/ i > 2
       THEN /\ pc' = "convert"
            /\ UNCHANGED i
       ELSE /\ i' = i + 1
            /\ pc' = "loopContent"
    /\ UNCHANGED <<cfg, pageContent, end, captured, next, ret, tmp, browser, status, out, shots, slide, opt, log, pending>>

\* while (!end) { await i++; ...  (main.js:503-505)
LoopTest ==
    /\ pc = "loop"
    /\ IF end
       THEN /\ pc' = "convert"
            /\ UNCHANGED i
       ELSE /\ i' = i + 1
            /\ pc' = "loopContent"
    /\ UNCHANGED <<cfg, pageContent, end, captured, next, ret, tmp, browser, status, out, shots, slide, opt, log, pending>>

\* a plausible slip: the slide on which the end is found is captured again
LoopContent_ShotAtEnd ==
    /\ pc = "loopContent"
    /\ \/ \E markup \in Snapshots :
            LET r == isEnd(markup, end, cfg.endCase)
                n == nextslide(markup, cfg.navigate)
            IN  /\ pageContent' = markup
                /\ IF r.kind # "return"
                   THEN /\ ret' = r
                        /\ LoopCatch
                        /\ Did(<<"content", "isEnd:throw", "catch">>)
                        /\ UNCHANGED <<end, next>>
                   ELSE IF r.val
                   THEN /\ ret' = r
                        /\ end' = TRUE
                        /\ pc' = "shot"
                        /\ Did(<<"content", "isEnd:true">>)
                        /\ UNCHANGED <<next, out>>
                   ELSE /\ ret' = n
                        /\ end' = FALSE
                        /\ next' = n.action
                        /\ out' = out \cup n.diag
                        /\ Did(<<"content", "isEnd:false">> \o nextslideCalls(cfg.navigate))
                        /\ pc' = "press"
       \/ /\ LoopCatch
          /\ Did(<<"content", "catch">>)
          /\ UNCHANGED <<pageContent, end, next, ret>>
    /\ UNCHANGED <<cfg, i, captured, tmp, browser, status, shots, slide, opt, pending>>

\* a plausible slip: the key is resolved on the snapshot of the pass before
LoopContent_StaleSnapshot ==
    /\ pc = "loopContent"
    /\ \/ LET r == isEnd(pageContent, end, cfg.endCase)
              n == nextslide(pageContent, cfg.navigate)
          IN  /\ UNCHANGED pageContent
              /\ IF r.kind # "return"
                 THEN /\ ret' = r
                      /\ LoopCatch
                      /\ Did(<<"isEnd:throw", "catch">>)
                      /\ UNCHANGED <<end, next>>
                 ELSE IF r.val
                 THEN /\ ret' = r
                      /\ end' = TRUE
                      /\ pc' = "loop"
                      /\ Did(<<"isEnd:true">>)
                      /\ UNCHANGED <<next, out>>
                 ELSE /\ ret' = n
                      /\ end' = FALSE
                      /\ next' = n.action
                      /\ out' = out \cup n.diag
                      /\ Did(<<"isEnd:false">> \o nextslideCalls(cfg.navigate))
                      /\ pc' = "press"
       \/ /\ LoopCatch
          /\ Did(<<"content", "catch">>)
          /\ UNCHANGED <<pageContent, end, next, ret>>
    /\ UNCHANGED <<cfg, i, captured, tmp, browser, status, shots, slide, opt, pending>>

\* a plausible slip: the key of the call before is not reset, and the scan
\* of the table, which runs while the key is "", is skipped
LoopContent_KeepsKey ==
    /\ pc = "loopContent"
    /\ \/ \E markup \in Snapshots :
            LET r == isEnd(markup, end, cfg.endCase)
                n == nextslide(markup, cfg.navigate)
            IN  /\ pageContent' = markup
                /\ IF r.kind # "return"
                   THEN /\ ret' = r
                        /\ LoopCatch
                        /\ Did(<<"content", "isEnd:throw", "catch">>)
                        /\ UNCHANGED <<end, next>>
                   ELSE IF r.val
                   THEN /\ ret' = r
                        /\ end' = TRUE
                        /\ pc' = "loop"
                        /\ Did(<<"content", "isEnd:true">>)
                        /\ UNCHANGED <<next, out>>
                   ELSE /\ ret' = n
                        /\ end' = FALSE
                        /\ next' = IF next = "" THEN n.action ELSE next
                        /\ out' = out \cup n.diag
                        /\ Did(<<"content", "isEnd:false">> \o nextslideCalls(cfg.navigate))
                        /\ pc' = "press"
       \/ /\ LoopCatch
          /\ Did(<<"content", "catch">>)
          /\ UNCHANGED <<pageContent, end, next, ret>>
    /\ UNCHANGED <<cfg, i, captured, tmp, browser, status, shots, slide, opt, pending>>

\* pageContent = await page.content(); end = isEnd(pageContent, end);
\* if (!end) next = await nextslide(pageContent)  (main.js:507-511)
LoopContent ==
    /\ pc = "loopContent"
    /\ \/ \E markup \in Snapshots :
            LET r == isEnd(markup, end, cfg.endCase)
                n == nextslide(markup, cfg.navigate)
            IN  /\ pageContent' = markup
                /\ IF r.kind # "return"
                   THEN /\ ret' = r
                        /\ LoopCatch
                        /\ Did(<<"content", "isEnd:throw", "catch">>)
                        /\ UNCHANGED <<end, next>>
                   ELSE IF r.val
                   THEN /\ ret' = r
                        /\ end' = TRUE
                        /\ pc' = "loop"
                        /\ Did(<<"content", "isEnd:true">>)
                        /\ UNCHANGED <<next, out>>
                   ELSE /\ ret' = n
                        /\ end' = FALSE
                        /\ next' = n.action
                        /\ out' = out \cup n.diag
                        /\ Did(<<"content", "isEnd:false">> \o nextslideCalls(cfg.navigate))
                        /\ pc' = "press"
       \/ /\ LoopCatch
          /\ Did(<<"content", "catch">>)
          /\ UNCHANGED <<pageContent, end, next, ret>>
    /\ UNCHANGED <<cfg, i, captured, tmp, browser, status, shots, slide, opt, pending>>

\* await page.keyboard.press(next): throws on a key that is not a key name;
\* each key pressed moves the deck one slide on, up to its MaxSlides slides
Press ==
    /\ pc = "press"
    /\ \/ /\ next # Undefined
          /\ slide < MaxSlides
          /\ slide' = slide + 1
          /\ Did(<<"press">>)
          /\ pc' = "sleep"
          /\ UNCHANGED out
       \/ /\ LoopCatch
          /\ Did(<<"press", "catch">>)
          /\ UNCHANGED slide
    /\ UNCHANGED <<cfg, pageContent, end, i, captured, next, ret, tmp, browser, status, shots, opt, pending>>

\* a plausible slip: the screenshot does not wait for the animation delay
Sleep_NoWait ==
    /\ pc = "sleep"
    /\ pc' = "shot"
    /\ Did(<<"stopAnimation">>)
    /\ pending' = pending \cup stopAnimation
    /\ UNCHANGED <<cfg, pageContent, end, i, captured, next, ret, tmp, browser, status, out, shots, slide, opt>>

\* await sleep(animationDelay); await stopAnimation(page)  (main.js:513-514)
Sleep ==
    /\ pc = "sleep"
    /\ pc' = "shot"
    /\ Did(<<"sleep", "stopAnimation">>)
    /\ pending' = pending \cup stopAnimation
    /\ UNCHANGED <<cfg, pageContent, end, i, captured, next, ret, tmp, browser, status, out, shots, slide, opt>>

\* the screenshot of slide i  (main.js:515-518)
Screenshot ==
    /\ pc = "shot"
    /\ \/ /\ screenshotWritable(tmp)
          /\ captured' = Append(captured, i)
          /\ shots' = Append(shots, slide)
          /\ Did(<<"screenshot">>)
          /\ pc' = "loop"
          /\ UNCHANGED out
       \/ /\ LoopCatch
          /\ Did(<<"screenshot", "catch">>)
          /\ UNCHANGED <<captured, shots>>
    /\ UNCHANGED <<cfg, pageContent, end, i, next, ret, tmp, browser, status, slide, opt, pending>>

\* await easyimg.convert(...); the message; deleteTmp(tempDir)  (main.js:527-536)
Convert ==
    /\ pc = "convert"
    /\ \/ /\ out' = out \cup {MsgRendered}
          /\ tmp' = deleteTmp(tmp)
          /\ Did(<<"convert", "deleteTmp">>)
          /\ pc' = "close"
          /\ UNCHANGED status
       \/ /\ OuterCatch
          /\ Did(<<"convert", "catch", "deleteTmp">>)
    /\ UNCHANGED <<cfg, pageContent, end, i, captured, next, ret, browser, shots, slide, opt, pending>>

\* await browser.close()  (main.js:537)
Close ==
    /\ pc = "close"
    /\ \/ /\ browser' = "closed"
          /\ Did(<<"close">>)
          /\ pc' = "done"
          /\ UNCHANGED <<tmp, status, out>>
       \/ /\ OuterCatch
          /\ Did(<<"close", "catch", "deleteTmp">>)
          /\ UNCHANGED browser
    /\ UNCHANGED <<cfg, pageContent, end, i, captured, next, ret, shots, slide, opt, pending>>

\* rimraf completes, as long as the process lives
RimrafDone ==
    /\ status = "running"
    /\ tmp = "removing"
    /\ tmp' = "removed"
    /\ UNCHANGED <<cfg, pageContent, end, i, pc, captured, next, ret, browser, status, out, shots, slide, opt, log, pending>>

\* a command sent by stopAnimation is answered, as long as the process lives
CommandDone ==
    /\ status = "running"
    /\ \E command \in pending : pending' = pending \ {command}
    /\ UNCHANGED <<cfg, pageContent, end, i, pc, captured, next, ret, tmp, browser, status, out, shots, slide, opt, log>>

\* a plausible slip: the process is ended as soon as the function returns
Exit_AtOnce ==
    /\ pc = "done"
    /\ status' = "0"
    /\ pc' = "exited"
    /\ UNCHANGED <<cfg, pageContent, end, i, captured, next, ret, tmp, browser, out, shots, slide, opt, log, pending>>

\* the async function has returned and nothing is pending: the process ends
Exit ==
    /\ pc = "done"
    /\ tmp # "removing"
    /\ pending = {}
    /\ status' = "0"
    /\ pc' = "exited"
    /\ UNCHANGED <<cfg, pageContent, end, i, captured, next, ret, tmp, browser, out, shots, slide, opt, log, pending>>

Next ==
    \/ Launch
    \/ NewPage
    \/ Goto
    \/ FirstContent
    \/ FirstScreenshot
    \/ LoopTest
    \/ LoopContent
    \/ Press
    \/ Sleep
    \/ Screenshot
    \/ Convert
    \/ Close
    \/ RimrafDone
    \/ CommandDone
    \/ Exit

Spec == Init /\ [][Next]_vars

\* the run under the scheduling of the event loop: a continuation whose
\* operation has completed is run, and a pending callback is called
FairSpec == Spec /\ WF_vars(Next)

----------------------------------------------------------------------------
(* The resolution of the options at program start (main.js:428-453), for    *)
(* any command line and any configuration file                              *)

\* values yargs gives a number option: absent, not a number, or a number
CliNumbers == {Undef, NaN, Num(-1), Num(0), Num(50), Num(100), Num(101)}

\* values a configuration file gives: absent, a string, or a number
FileNumbers ==
    {Undef, Str(""), Str("800"), Str("high"),
     Num(-1), Num(0), Num(60), Num(100), Num(101)}

CliStrings == {Undef, Str(""), Str("cli")}

FileStrings == {Undef, Str("file")}

NumberOptions == {"w", "h", "delay", "q"}

\* command lines and configuration files: any url and output path, and one
\* of the number options given in any way
OptionInputs ==
    { [argv |-> [NoValues EXCEPT !["url"] = cu, !["o"] = co, ![k] = cn],
       file |-> [NoValues EXCEPT !["url"] = fu, !["o"] = fo, ![k] = fn]] :
        cu \in CliStrings, co \in CliStrings, fu \in FileStrings,
        fo \in FileStrings, k \in NumberOptions, cn \in CliNumbers,
        fn \in FileNumbers }

InitOpt ==
    /\ \E in \in OptionInputs, hasFile, argvOverwrite, fileOverwrite, exists \in BOOLEAN :
          opt = [hasFile |-> hasFile,
                 argv |-> in.argv,
                 file |-> IF hasFile THEN in.file ELSE NoValues,
                 argvOverwrite |-> argvOverwrite,
                 fileOverwrite |-> hasFile /\ fileOverwrite,
                 exists |-> exists,
                 used |-> NoValues,
                 overwrite |-> FALSE]
    /\ cfg = [endCase |-> NoEndCase, navigate |-> NoNavigate]
    /\ pageContent = <<>>
    /\ end = FALSE
    /\ i = 1
    /\ pc = "options"
    /\ captured = <<>>
    /\ next = ""
    /\ ret = NoCall
    /\ tmp = "none"
    /\ browser = "none"
    /\ status = "running"
    /\ out = {}
    /\ slide = 1
    /\ shots = <<>>
    /\ log = <<>>
    /\ pending = {}

\* the second arguments of isValidValue and isQuality: the configuration
\* file's values, or "" without a configuration file  (main.js:432-435, 442-445)
ConfigValue(k) == IF opt.hasFile THEN opt.file[k] ELSE Str("")

\* if (fs.existsSync(argv.config)) {...} else {...}  (main.js:428-448)
ResolveOptions ==
    /\ pc = "options"
    /\ LET url == validUrl(opt.argv.url, opt.file.url)
           noConfig == IF opt.hasFile THEN {} ELSE {MsgNoConfig}
       IN  IF url.exit
           THEN /\ out' = out \cup noConfig \cup {MsgNoUrl}
                /\ status' = "-1"
                /\ pc' = "exited"
                /\ UNCHANGED opt
           ELSE /\ opt' = [opt EXCEPT
                     !.used.url = url.val,
                     !.overwrite =
                         opt.argvOverwrite
                           \/ (opt.hasFile /\ opt.argvOverwrite /\ opt.fileOverwrite),
                     !.used.h = isValidValue(opt.argv.h, ConfigValue("h"), "h"),
                     !.used.w = isValidValue(opt.argv.w, ConfigValue("w"), "w"),
                     !.used.delay =
                         isValidValue(opt.argv.delay, ConfigValue("delay"), "d"),
                     !.used.q = isQuality(opt.argv.q, ConfigValue("q"))]
                /\ out' = out \cup noConfig
                            \cup isValidValueDiag(opt.argv.h, ConfigValue("h"), "h")
                            \cup isValidValueDiag(opt.argv.w, ConfigValue("w"), "w")
                            \cup isValidValueDiag(opt.argv.delay, ConfigValue("delay"), "d")
                            \cup isQualityDiag(opt.argv.q, ConfigValue("q"))
                /\ pc' = "path"
                /\ UNCHANGED status
    /\ UNCHANGED <<cfg, pageContent, end, i, captured, next, ret, tmp, browser, shots, slide, log, pending>>

\* typedPath = verifyPath(argv.o); newName = verifyName(..., overwrite)
\* (main.js:450-453)
ResolvePath ==
    /\ pc = "path"
    /\ opt' = [opt EXCEPT !.used.o = verifyPath(opt.argv.o, opt.file.o)]
    /\ IF verifyNameExits(opt.exists, opt.overwrite)
       THEN /\ out' = out \cup verifyPathDiag(opt.argv.o, opt.file.o) \cup {MsgExists}
            /\ status' = "1"
            /\ pc' = "exited"
       ELSE /\ out' = out \cup verifyPathDiag(opt.argv.o, opt.file.o)
            /\ pc' = "resolved"
            /\ UNCHANGED status
    /\ UNCHANGED <<cfg, pageContent, end, i, captured, next, ret, tmp, browser, shots, slide, log, pending>>

NextOpt ==
    \/ ResolveOptions
    \/ ResolvePath

SpecOpt == InitOpt /\ [][NextOpt]_vars

----------------------------------------------------------------------------
(* Properties of isEnd, under SpecEnd *)

Evaluated == pc = "evaluated"

Present(selector) == containsClass(pageContent, selector)

\* a custom rule with a non-empty queries array
CustomRule ==
    /\ cfg.endCase.defined
    /\ cfg.endCase.hasQueries
    /\ Len(cfg.endCase.queries) >= 1

\* C1: isEnd called with end = true returns true without evaluating any
\* selector, whatever the snapshot and the rule; so the end flag, once true,
\* is still true after the call.
C1_EndMonotonic ==
    [][end => /\ end'
              /\ ret'.kind = "return"
              /\ ret'.val
              /\ ret'.queried = <<>>]_vars

\* isEnd ran with end = true on a snapshot that an evaluation would not call the end
C1_Witness ==
    /\ Evaluated
    /\ ret.end
    /\ end
    /\ isEnd(pageContent, FALSE, cfg.endCase).kind = "return"
    /\ ~isEnd(pageContent, FALSE, cfg.endCase).val

\* C2: an "and" rule, not reversed, with end = false: isEnd returns true
\* exactly when every query's selector matches, false as soon as one does not.
C2_AndAllMatch ==
    (/\ Evaluated
     /\ ~ret.end
     /\ CustomRule
     /\ cfg.endCase.operator = "and"
     /\ ~cfg.endCase.reverse)
    => /\ ret.kind = "return"
       /\ ret.val = (\A k \in 1..Len(cfg.endCase.queries) : Present(cfg.endCase.queries[k]))
       /\ end = ret.val

\* two queries, the first matches and the second does not: not the end
C2_Witness ==
    /\ Evaluated
    /\ ~ret.end
    /\ CustomRule
    /\ cfg.endCase.operator = "and"
    /\ ~cfg.endCase.reverse
    /\ Len(cfg.endCase.queries) = 2
    /\ Present(cfg.endCase.queries[1])
    /\ ~Present(cfg.endCase.queries[2])
    /\ ret.kind = "return"
    /\ ~ret.val

\* C3: an "or" rule, not reversed, with end = false: isEnd returns true
\* exactly when at least one query's selector matches.
C3_OrSomeMatch ==
    (/\ Evaluated
     /\ ~ret.end
     /\ CustomRule
     /\ cfg.endCase.operator = "or"
     /\ ~cfg.endCase.reverse)
    => /\ ret.kind = "return"
       /\ ret.val = (\E k \in 1..Len(cfg.endCase.queries) : Present(cfg.endCase.queries[k]))
       /\ end = ret.val

\* two queries, the first does not match and the second does: the end
C3_Witness ==
    /\ Evaluated
    /\ ~ret.end
    /\ CustomRule
    /\ cfg.endCase.operator = "or"
    /\ ~cfg.endCase.reverse
    /\ Len(cfg.endCase.queries) = 2
    /\ ~Present(cfg.endCase.queries[1])
    /\ Present(cfg.endCase.queries[2])
    /\ ret.kind = "return"
    /\ ret.val

\* C4: with reverse = true each query counts when its selector is absent: an
\* "and" rule is true exactly when every selector is absent (a single-query
\* rule: when its selector is absent), an "or" rule exactly when at least one
\* selector is absent.
C4_ReverseInverts ==
    (/\ Evaluated
     /\ ~ret.end
     /\ CustomRule
     /\ cfg.endCase.reverse
     /\ cfg.endCase.operator \in {"and", "or"})
    => /\ ret.kind = "return"
       /\ cfg.endCase.operator = "and" =>
            ret.val = (\A k \in 1..Len(cfg.endCase.queries) : ~Present(cfg.endCase.queries[k]))
       /\ cfg.endCase.operator = "or" =>
            ret.val = (\E k \in 1..Len(cfg.endCase.queries) : ~Present(cfg.endCase.queries[k]))

\* a reversed single-query "and" rule on a page without the selector: the end
C4_Witness ==
    /\ Evaluated
    /\ ~ret.end
    /\ CustomRule
    /\ cfg.endCase.reverse
    /\ cfg.endCase.operator = "and"
    /\ Len(cfg.endCase.queries) = 1
    /\ Len(pageContent) >= 1
    /\ ~Present(cfg.endCase.queries[1])
    /\ ret.kind = "return"
    /\ ret.val

\* the five forward markers of the two frameworks
ForwardMarkers ==
    {SelFuture, SelNavigateRightEnabled, SelNavigateDownEnabled,
     SelSlideFuture, SelSlideFarFuture}

\* C5: without endCase and with end = false, isEnd returns true exactly when
\* none of the five forward markers is in the page.
C5_FrameworkDefault ==
    (/\ Evaluated
     /\ ~ret.end
     /\ ~cfg.endCase.defined)
    => /\ ret.kind = "return"
       /\ ret.val = (\A marker \in ForwardMarkers : ~Present(marker))
       /\ end = ret.val

\* a page with elements but none of the markers: the end by default
C5_Witness ==
    /\ Evaluated
    /\ ~ret.end
    /\ ~cfg.endCase.defined
    /\ Len(pageContent) >= 1
    /\ \A marker \in ForwardMarkers : ~Present(marker)
    /\ ret.kind = "return"
    /\ ret.val

\* C6: an endCase whose queries list is empty or missing makes isEnd fall
\* back to the framework defaults with a diagnostic, without a fault.
C6_EmptyQueriesFallBack ==
    (/\ Evaluated
     /\ ~ret.end
     /\ cfg.endCase.defined
     /\ ~cfg.endCase.hasQueries \/ Len(cfg.endCase.queries) = 0)
    => /\ ret.kind = "return"
       /\ ret.val = (\A marker \in ForwardMarkers : ~Present(marker))
       /\ ret.diag # {}

\* C7: a rule whose operator is not "and" gives, for every snapshot, query
\* list, reverse flag and end flag, the outcome of the same rule with "or".
C7_UnknownOperatorIsOr ==
    (/\ Evaluated
     /\ cfg.endCase.defined
     /\ cfg.endCase.operator # "and")
    => ret = isEnd(pageContent, ret.end, [cfg.endCase EXCEPT !.operator = "or"])

\* an "xor" rule of two queries of which one matches: true, as "or" gives
C7_Witness ==
    /\ Evaluated
    /\ ~ret.end
    /\ CustomRule
    /\ cfg.endCase.operator = "xor"
    /\ ~cfg.endCase.reverse
    /\ Len(cfg.endCase.queries) = 2
    /\ Present(cfg.endCase.queries[1])
    /\ ~Present(cfg.endCase.queries[2])
    /\ ret.kind = "return"
    /\ ret.val

----------------------------------------------------------------------------
(* Properties of nextslide, under SpecNav *)

\* a navigate table with at least one entry, every entry a [selector, action]
ValidTable ==
    /\ cfg.navigate.defined
    /\ Len(cfg.navigate.list) >= 1
    /\ \A k \in 1..Len(cfg.navigate.list) : Len(cfg.navigate.list[k]) = 2

\* the entries whose selector matches the page
MatchingEntries ==
    {k \in 1..Len(cfg.navigate.list) : Present(cfg.navigate.list[k][1])}

\* C8: with a valid table, nextslide returns the action of the first entry
\* whose selector matches, whatever later entries match.
C8_FirstMatchWins ==
    (/\ Evaluated
     /\ ValidTable
     /\ MatchingEntries # {})
    => LET first == CHOOSE k \in MatchingEntries : \A j \in MatchingEntries : k <= j
       IN  /\ ret.kind = "return"
           /\ ret.action = cfg.navigate.list[first][2]
           /\ next = ret.action

\* two entries with different selectors and actions, both matching
C8_Witness ==
    /\ Evaluated
    /\ ValidTable
    /\ Len(cfg.navigate.list) = 2
    /\ cfg.navigate.list[1][1] # cfg.navigate.list[2][1]
    /\ cfg.navigate.list[1][2] # cfg.navigate.list[2][2]
    /\ MatchingEntries = {1, 2}
    /\ ret.action = cfg.navigate.list[1][2]

\* C9: with a valid table of which no entry matches, nextslide returns
\* ArrowRight.
C9_NoMatchMovesRight ==
    (/\ Evaluated
     /\ ValidTable
     /\ MatchingEntries = {})
    => /\ ret.kind = "return"
       /\ ret.action = "ArrowRight"
       /\ next = "ArrowRight"

\* a page with elements, none matched by the two entries of the table
C9_Witness ==
    /\ Evaluated
    /\ ValidTable
    /\ Len(cfg.navigate.list) = 2
    /\ Len(pageContent) >= 1
    /\ MatchingEntries = {}
    /\ ret.action = "ArrowRight"

----------------------------------------------------------------------------
(* Properties of the run, under Spec, and of the navigate option *)

\* C11: when the navigate option is missing, the key pressed is ArrowRight on
\* every slide, whatever the page holds.
C11_MissingNavigateMovesRight ==
    (/\ ~cfg.navigate.defined
     /\ pc = "sleep")
    => next = "ArrowRight"

\* a navigate option that is there and is not a valid table
InvalidTable ==
    /\ cfg.navigate.defined
    /\ ~ValidTable

\* C12: an invalid navigate table (empty, or with an entry, the last one
\* included, that has not exactly two elements) makes nextslide apply the
\* default rule and print a diagnostic; it returns no undefined key.
C12_InvalidTableFallsBack ==
    (/\ Evaluated
     /\ InvalidTable)
    => /\ ret.kind = "return"
       /\ ret.action = defaultKey(pageContent)
       /\ ret.action # Undefined
       /\ DiagInvalidNavigate \in ret.diag

\* positions of the run after the screenshot of slide 1
AfterFirstScreenshot ==
    pc \in {"loop", "loopContent", "press", "sleep", "shot", "convert", "close", "done"}

\* no catch block has run
FaultFree == out \cap {MsgUrl, MsgLoop, MsgOuter} = {}

\* the sequence 1, 2, ..., n
UpTo(n) == [k \in 1..n |-> k]

\* C13: the screenshot of index 1 is taken whether the first isEnd returned
\* true or false, and before any key is pressed.
C13_FirstSlideCaptured ==
    /\ AfterFirstScreenshot =>
         (captured # <<>> /\ captured[1] = 1 /\ shots[1] = 1)
    /\ (next # "" \/ slide > 1) =>
         (captured # <<>> /\ captured[1] = 1 /\ shots[1] = 1)

\* the first slide was the end and has its screenshot
C13_Witness ==
    /\ pc = "convert"
    /\ end
    /\ i = 1
    /\ slide = 1
    /\ captured = <<1>>

\* C14: the slide index never decreases and grows by one per pass of the
\* loop; the indices captured are 1, 2, ..., k without gap or repetition, at
\* any point of a run, faults included.
C14_IndexSequence ==
    /\ [](/\ captured = UpTo(Len(captured))
          /\ Len(captured) <= i
          /\ i <= Len(captured) + 1)
    /\ [][i' = i \/ i' = i + 1]_vars

\* a fault in the third pass of the loop, after two screenshots
C14_Witness ==
    /\ MsgLoop \in out
    /\ i = 3
    /\ captured = <<1, 2>>

\* C15: in a run without fault that ends on slide N (isEnd false on the
\* slides before, true on slide N, each key moving one slide on), the indices
\* captured are 1..N in order and index k is the screenshot of slide k.
C15_DeckCapturedOnce ==
    (/\ pc \in {"convert", "close", "done", "exited"}
     /\ FaultFree)
    => /\ end
       /\ captured = UpTo(slide)
       /\ shots = UpTo(slide)

\* a deck of three slides, fully traversed
C15_Witness ==
    /\ pc = "done"
    /\ FaultFree
    /\ slide = 3
    /\ captured = <<1, 2, 3>>
    /\ shots = <<1, 2, 3>>

\* C16: once isEnd has returned true, no page is fetched, no key pressed and
\* no screenshot taken (but the screenshot of slide 1 that follows the first
\* isEnd): the run goes on to convert and cleanup.
C16_NothingAfterEnd ==
    [][(end /\ pc # "firstShot")
         => /\ captured' = captured
            /\ shots' = shots
            /\ slide' = slide
            /\ next' = next
            /\ i' = i
            /\ pageContent' = pageContent
            /\ pc' \in {"loop", "convert", "close", "done", "exited"}
      ]_vars

\* the end was found in the loop, after two screenshots
C16_Witness ==
    /\ pc = "convert"
    /\ end
    /\ FaultFree
    /\ i = 3
    /\ captured = <<1, 2>>

\* C17: after a fault caught in the loop (page fetch, key press or
\* screenshot), no page is fetched, no key pressed, no screenshot taken.
C17_LoopFaultIsTerminal ==
    [][(MsgLoop \in out)
         => /\ captured' = captured
            /\ shots' = shots
            /\ slide' = slide
            /\ next' = next
            /\ i' = i
            /\ pageContent' = pageContent
            /\ pc' \in {"convert", "close", "done", "exited"}
      ]_vars

\* the loop was left by a fault, not by the end
C17_Witness ==
    /\ MsgLoop \in out
    /\ ~end
    /\ pc = "done"
    /\ captured = <<1, 2>>

\* the process has ended
Exited == pc = "exited"

\* C18: when the process ends, on any path, the temporary directory has been
\* removed and the browser, if it was launched, has been closed.
C18_ResourcesReleased ==
    Exited => /\ tmp = "removed"
              /\ browser \in {"none", "closed"}

\* C19: a run in which an external fault occurred (a catch block ran and
\* printed its message) ends with a non-zero status.
C19_FaultMeansFailure ==
    (Exited /\ ~FaultFree) => status # "0"

----------------------------------------------------------------------------
(* Properties of the options, under SpecOpt *)

\* the options have been resolved and the run can start
Resolved == pc = "resolved"

\* the value the code accepts from the command line for option k: any string
\* for url and output path, a number >= 0 for width, height and delay, a
\* number from 0 to 100 for the quality
ValidOnCommandLine(k) ==
    LET v == opt.argv[k]
    IN  CASE k \in {"url", "o"} -> v.t = "string"
          [] k \in {"w", "h", "delay"} -> v.t = "number" /\ v.n >= 0
          [] k = "q" -> v.t = "number" /\ v.n >= 0 /\ v.n <= 100

\* C20: for url, output path, width, height, delay and quality, when the
\* command line gives a valid value and the configuration file a different
\* one, the value used is the command line's.
C20_CommandLineFirst ==
    Resolved =>
      \A k \in OptionNames :
        (/\ opt.hasFile
         /\ ValidOnCommandLine(k)
         /\ opt.file[k] # Undef
         /\ opt.file[k] # opt.argv[k])
        => opt.used[k] = opt.argv[k]

\* both give a valid width, height, delay or quality, and both give a url
\* and a path
C20_Witness ==
    /\ Resolved
    /\ opt.hasFile
    /\ \E k \in NumberOptions :
          /\ opt.argv[k] = Num(50)
          /\ opt.file[k] = Num(60)
          /\ opt.used[k] = Num(50)
    /\ opt.argv.url = Str("cli")
    /\ opt.file.url = Str("file")
    /\ opt.used.url = Str("cli")
    /\ opt.argv.o = Str("cli")
    /\ opt.file.o = Str("file")
    /\ opt.used.o = Str("cli")

\* C21: with overwrite set to true in the configuration file and no
\* --overwrite on the command line, the name check does not stop the process
\* with status 1, whether the output file exists or not.
C21_FileOverwriteAccepted ==
    (/\ opt.hasFile
     /\ opt.fileOverwrite
     /\ ~opt.argvOverwrite
     /\ Exited)
    => status # "1"

----------------------------------------------------------------------------
(* Properties of the order of the calls and operations of a run, under Spec *)

\* the positions of the log that hold the event
Positions(event) == {k \in DOMAIN log : log[k] = event}

\* C22: in a run the navigate table is validated once and the message of an
\* invalid table is printed once, however many times nextslide is called.
C22_ValidatedOncePerRun ==
    /\ Cardinality(Positions("validNavigate")) <= 1
    /\ Cardinality(Positions(DiagInvalidNavigate)) <= 1

\* the operations issued and not completed: the commands sent to the page
\* and the removal of the directory (the awaited operations complete within
\* the step that issues them)
InFlight == pending \cup (IF tmp = "removing" THEN {"rimraf"} ELSE {})

\* C23: at most one external operation is in flight at any time: of the
\* commands sent to the page and the removal of the directory, no two are
\* pending together.
C23_OneOperationInFlight == Cardinality(InFlight) <= 1

\* the events of a cycle that claim C24 counts
IsCycleEvent(event) ==
    event \in {"isEnd:true", "isEnd:false", "isEnd:throw", "press", "sleep"}

\* the screenshot before position q of the log, 0 if there is none
PreviousScreenshot(q) ==
    LET before == {p \in Positions("screenshot") : p < q}
    IN  IF before = {} THEN 0 ELSE CHOOSE p \in before : \A r \in before : r <= p

\* C24: between a screenshot and the screenshot before it there is exactly
\* one isEnd, which returned false, then one key pressed, then one wait of
\* the animation delay, in that order.
C24_CycleBeforeCapture ==
    \A q \in Positions("screenshot") :
        PreviousScreenshot(q) # 0 =>
            SelectSeq(SubSeq(log, PreviousScreenshot(q) + 1, q - 1), IsCycleEvent)
                = <<"isEnd:false", "press", "sleep">>

\* three screenshots taken, two cycles between them
C24_Witness ==
    /\ captured = <<1, 2, 3>>
    /\ Cardinality(Positions("screenshot")) = 3
    /\ Cardinality(Positions("sleep")) = 2

\* the events that are a decision on a snapshot
IsDecision(event) ==
    event \in {"isEnd:true", "isEnd:false", "isEnd:throw", "nextslide"}

\* the last fetch of the markup before position p of the log, 0 if none
PreviousContent(p) ==
    LET before == {q \in Positions("content") : q < p}
    IN  IF before = {} THEN 0 ELSE CHOOSE q \in before : \A r \in before : r <= q

\* C25: every isEnd evaluation directly follows a fetch of the markup, and no
\* key is pressed between the last fetch and an isEnd or nextslide call: no
\* decision is made on a snapshot older than the last key pressed.
C25_DecisionOnFreshSnapshot ==
    \A p \in DOMAIN log :
        /\ (log[p] \in {"isEnd:true", "isEnd:false", "isEnd:throw"})
              => (p > 1 /\ log[p - 1] = "content")
        /\ IsDecision(log[p])
              => /\ PreviousContent(p) # 0
                 /\ \A q \in Positions("press") : ~(PreviousContent(p) < q /\ q < p)

\* a key was chosen on slide 2, after a key had been pressed
C25_Witness ==
    /\ pc = "press"
    /\ slide = 2
    /\ Positions("press") # {}
    /\ log[Len(log)] = "nextslide"
    /\ PreviousContent(Len(log)) > CHOOSE q \in Positions("press") : TRUE

C27_NoIterationCeiling ==
    /\ []((FaultFree /\ ~end) => pc \notin {"convert", "close", "done", "exited"})
    /\ []((FaultFree /\ ~end /\ pc = "loop")
            => /\ Len(captured) = i
               /\ Cardinality(Positions("press")) = i - 1)
    /\ [][(pc = "loop" /\ ~end /\ pc' # pc)
            => /\ i' = i + 1
               /\ pc' = "loopContent"
         ]_vars

\* as many passes as the deck of the model has slides, and one more started
C27_Witness ==
    /\ FaultFree
    /\ ~end
    /\ pc = "loopContent"
    /\ i = MaxSlides + 1
    /\ Len(captured) = MaxSlides

\* C28: once the removal of the temporary directory has been started, no
\* markup is fetched and no screenshot is taken.
C28_NothingAfterCleanup ==
    [][(tmp # "present")
         => /\ captured' = captured
            /\ \A k \in DOMAIN log' :
                  k > Len(log) => log'[k] \notin {"content", "screenshot"}
      ]_vars

\* the only fault of the run was caught by the catch of the loop
LoopFaultOnly == MsgLoop \in out /\ MsgUrl \notin out

\* C29: after a fault caught in the loop the run goes on to the conversion,
\* with the screenshots it has and without reaching the outer catch by that
\* fault; the removal of the directory is started only after the conversion
\* and the browser is closed only after the removal was started.
C29_AssemblyAfterLoopFault ==
    /\ [](LoopFaultOnly
            => /\ \A d \in Positions("deleteTmp") :
                     \E c \in Positions("convert") : c < d
               /\ \A x \in Positions("close") :
                     \E d \in Positions("deleteTmp") : d < x
               /\ tmp # "present" => Positions("convert") # {}
               /\ browser = "closed" => MsgRendered \in out)
    /\ [][(MsgLoop \notin out /\ MsgLoop \in out')
            => /\ pc' = "convert"
               /\ status' = "running"
               /\ MsgOuter \notin out'
               /\ captured' = captured
               /\ tmp' = tmp
               /\ browser' = browser
         ]_vars

\* a fault in the third pass, then the conversion of the two screenshots,
\* the removal and the close
C29_Witness ==
    /\ LoopFaultOnly
    /\ pc = "done"
    /\ captured = <<1, 2>>
    /\ MsgRendered \in out
    /\ tmp \in {"removing", "removed"}
    /\ browser = "closed"

----------------------------------------------------------------------------
(* Termination of the run, under FairSpec *)

\* the process has ended normally with every resource released
Released ==
    /\ Exited
    /\ status = "0"
    /\ MsgRendered \in out
    /\ tmp = "removed"
    /\ browser = "closed"

\* C30: a run in which no operation faults and isEnd returns true on some
\* slide eventually leaves the loop, converts, removes the temporary
\* directory, closes the browser and ends.
C30_EventuallyReleased == ([]FaultFree /\ <>end) => <>Released

\* the end was found on slide 2 and the run has ended with all released
C30_Witness ==
    /\ Released
    /\ FaultFree
    /\ end
    /\ slide = 2
    /\ captured = <<1, 2>>

====
